---------------------------- MODULE Spec2Model ----------------------------
(***************************************************************************)
(* Gate assignment engine of airport_gate_planning.                        *)
(*                                                                         *)
(*   src/src/interval_partitioning.py  Aircraft, quicksort by arrival,     *)
(*                                     interval_partitioning (batch)       *)
(*   src/src/airport_planning.py       AirportPlanningApp: add_aircraft,   *)
(*                                     assign_flight_incrementally,        *)
(*                                     delete_selected_aircraft,           *)
(*                                     run_planning, load_sample_data      *)
(*                                                                         *)
(* Python lists are 0-based, TLA+ sequences 1-based: every list index,     *)
(* table row and gate index of the model is the Python one plus one.       *)
(* An Aircraft object is a record; its field id stands for the object's    *)
(* identity (Aircraft defines no __eq__, so `in` and list.remove compare   *)
(* by identity).  A value computed once in the code is handed on as an     *)
(* operator argument, which is evaluated once.                             *)
(***************************************************************************)
EXTENDS Integers, Sequences, FiniteSets

VARIABLES
    aircraft_list,        \* AirportPlanningApp.aircraft_list
    gate_assignments,     \* AirportPlanningApp.gate_assignments
    gates_needed,         \* AirportPlanningApp.gates_needed
    last,                 \* the handler that ran last: its name, the rows that
                          \* were selected in the table, and how it ended
    ip_pc,                \* position inside one call of interval_partitioning
    ip_input,             \* the list as it was handed to that call
    ip_aircrafts,         \* the caller's list object (sorted in place)
    ip_k,                 \* planes of sorted_aircrafts the for loop has consumed
    ip_gate_assignments,  \* local gate_assignments of the call
    ip_gates_heap,        \* local gates_heap of the call
    ip_result,            \* the returned (num_gates, gate_assignments)
    qs_stack              \* the frames of quicksort, the innermost call last

vars == <<aircraft_list, gate_assignments, gates_needed, last,
          ip_pc, ip_input, ip_aircrafts, ip_k, ip_gate_assignments,
          ip_gates_heap, ip_result, qs_stack>>

app_vars == <<aircraft_list, gate_assignments, gates_needed, last>>

ip_vars == <<ip_pc, ip_input, ip_aircrafts, ip_k, ip_gate_assignments,
             ip_gates_heap, ip_result, qs_stack>>

----------------------------------------------------------------------------
(* Bounds of the model.                                                    *)

\* longest list handed to interval_partitioning in SpecBatch
MaxLen == 4

\* arrival and departure of SpecBatch tasks range over 0..MaxTime
MaxTime == 3

\* add_aircraft is accepted only while the store holds fewer tasks
MaxAircraft == 3

\* The deepest nesting of quicksort calls the interpreter allows before it
\* raises RecursionError.  CPython's limit (sys.getrecursionlimit()) is 1000
\* frames; it is scaled down here together with the lists, MaxLen being 4.
RecursionLimit == 3

----------------------------------------------------------------------------
(* interval_partitioning.py                                                *)

Aircraft(id, code, arrival, departure) ==
    [id |-> id, code |-> code, arrival |-> arrival, departure |-> departure]

\* Swap storing only the first of the two assignments
Swap_one_way(arr, a, b) == [arr EXCEPT ![a] = arr[b]]

Swap(arr, a, b) == [arr EXCEPT ![a] = arr[b], ![b] = arr[a]]

RECURSIVE partition_loop(_, _, _, _, _)
\* the for loop of partition: j runs over low .. high - 1
partition_loop(arr, i, j, high, pivot) ==
    IF j >= high
    THEN [arr |-> arr, i |-> i]
    ELSE IF arr[j].arrival <= pivot
         THEN partition_loop(Swap(arr, i + 1, j), i + 1, j + 1, high, pivot)
         ELSE partition_loop(arr, i, j + 1, high, pivot)

\* arr[i + 1], arr[high] = arr[high], arr[i + 1]; return i + 1
partition_end(r, high) == [arr |-> Swap(r.arr, r.i + 1, high), pi |-> r.i + 1]

partition(arr, low, high) ==
    partition_end(partition_loop(arr, low - 1, low, high, arr[high].arrival), high)

RECURSIVE quicksort(_, _, _)
RECURSIVE quicksort_parts(_, _, _)
\* quicksort_parts without the call on the right part
quicksort_parts_left_only(p, low, high) == quicksort(p.arr, low, p.pi - 1)

\* the two recursive calls, p being what partition left: the list and pi
quicksort_parts(p, low, high) ==
    quicksort(quicksort(p.arr, low, p.pi - 1), p.pi + 1, high)

quicksort(arr, low, high) ==
    IF low < high
    THEN quicksort_parts(partition(arr, low, high), low, high)
    ELSE arr

manual_sort_by_arrival(aircraft_list_arg) ==
    IF aircraft_list_arg = <<>>
    THEN <<>>
    ELSE quicksort(aircraft_list_arg, 1, Len(aircraft_list_arg))

\* heapq on tuples (departure_time, gate_index): the heap is the set of its
\* entries, heap[0] the least entry in Python's tuple order.
\* tuple_le with the gate indices of equal departures compared the other way
tuple_le_high_index(e, f) == e[1] < f[1] \/ (e[1] = f[1] /\ e[2] >= f[2])

tuple_le(e, f) == e[1] < f[1] \/ (e[1] = f[1] /\ e[2] <= f[2])

\* heap0 taking the entry that sorts last
heap0_latest(heap) == CHOOSE e \in heap : \A f \in heap : tuple_le(f, e)

heap0(heap) == CHOOSE e \in heap : \A f \in heap : tuple_le(e, f)

heappush(heap, item) == heap \cup {item}

\* heap_without leaving the entry in the heap
heap_keep(heap, item) == [item |-> item, heap |-> heap]

heap_without(heap, item) == [item |-> item, heap |-> heap \ {item}]

heappop(heap) == heap_without(heap, heap0(heap))

\* reuse_gate with the gate's list assigned instead of appended to
reuse_gate_overwrite(ga, popped, plane) ==
    [gate_assignments |-> [ga EXCEPT ![popped.item[2]] = <<plane>>],
     gates_heap |-> heappush(popped.heap, <<plane.departure, popped.item[2]>>)]

\* the reuse branch, popped being what heappop returned and left
reuse_gate(ga, popped, plane) ==
    [gate_assignments |-> [ga EXCEPT ![popped.item[2]] = Append(@, plane)],
     gates_heap |-> heappush(popped.heap, <<plane.departure, popped.item[2]>>)]

\* open_gate with the new gate's list left empty
open_gate_empty(st, new_gate_index, plane) ==
    [gate_assignments |-> Append(st.gate_assignments, <<>>),
     gates_heap |-> heappush(st.gates_heap, <<plane.departure, new_gate_index>>)]

\* the else branch, new_gate_index being len(gate_assignments)
open_gate(st, new_gate_index, plane) ==
    [gate_assignments |-> Append(st.gate_assignments, <<plane>>),
     gates_heap |-> heappush(st.gates_heap, <<plane.departure, new_gate_index>>)]

\* batch_step reusing a gate only when it has been free for some time
batch_step_strict(st, plane) ==
    IF st.gates_heap # {} /\ heap0(st.gates_heap)[1] < plane.arrival
    THEN reuse_gate(st.gate_assignments, heappop(st.gates_heap), plane)
    ELSE open_gate(st, Len(st.gate_assignments) + 1, plane)

\* one iteration of `for plane in sorted_aircrafts`
batch_step(st, plane) ==
    IF st.gates_heap # {} /\ heap0(st.gates_heap)[1] <= plane.arrival
    THEN reuse_gate(st.gate_assignments, heappop(st.gates_heap), plane)
    ELSE open_gate(st, Len(st.gate_assignments) + 1, plane)

RECURSIVE batch_loop(_, _, _)
\* the iterations of the for loop after the first k planes
batch_loop(st, sorted_aircrafts, k) ==
    IF k >= Len(sorted_aircrafts)
    THEN st
    ELSE batch_loop(batch_step(st, sorted_aircrafts[k + 1]), sorted_aircrafts, k + 1)

\* The call as a whole.  aircrafts is the caller's list after the call: the
\* sort is in place, sorted_aircrafts and the argument are one list object.
ip_return(st, sorted_aircrafts) ==
    [num_gates |-> Len(st.gate_assignments),
     gate_assignments |-> st.gate_assignments,
     aircrafts |-> sorted_aircrafts]

\* ip_sorted with the loop taking its planes out of the list
ip_sorted_consuming(sorted_aircrafts) ==
    ip_return(batch_loop([gate_assignments |-> <<>>, gates_heap |-> {}],
                         sorted_aircrafts, 0),
              <<>>)

ip_sorted(sorted_aircrafts) ==
    ip_return(batch_loop([gate_assignments |-> <<>>, gates_heap |-> {}],
                         sorted_aircrafts, 0),
              sorted_aircrafts)

interval_partitioning(aircrafts) ==
    IF aircrafts = <<>>
    THEN [num_gates |-> 0, gate_assignments |-> <<>>, aircrafts |-> aircrafts]
    ELSE ip_sorted(manual_sort_by_arrival(aircrafts))

----------------------------------------------------------------------------
(* One call of interval_partitioning, statement by statement.              *)

Intervals == {iv \in (0 .. MaxTime) \X (0 .. MaxTime) : iv[2] > iv[1]}

\* the list of len valid tasks with the intervals f, task n being the n-th object
BatchInput(len, f) == [n \in 1 .. len |-> Aircraft(n, "x", f[n][1], f[n][2])]

AppIdle ==
    /\ aircraft_list = <<>>
    /\ gate_assignments = <<>>
    /\ gates_needed = 0
    /\ last = [op |-> "none", rows |-> {}, outcome |-> "none"]

InitBatch ==
    /\ AppIdle
    /\ \E len \in 0 .. MaxLen :
           \E f \in [1 .. len -> Intervals] : ip_input = BatchInput(len, f)
    /\ ip_aircrafts = ip_input
    /\ ip_pc = "entry"
    /\ ip_k = 0
    /\ ip_gate_assignments = <<>>
    /\ ip_gates_heap = {}
    /\ ip_result = <<>>
    /\ qs_stack = <<>>

\* if not aircrafts: return 0, []
BatchEmpty ==
    /\ ip_pc = "entry"
    /\ ip_aircrafts = <<>>
    /\ ip_result' = <<0, <<>>>>
    /\ ip_pc' = "done"
    /\ UNCHANGED <<ip_input, ip_aircrafts, ip_k, ip_gate_assignments, ip_gates_heap>>
    /\ UNCHANGED qs_stack
    /\ UNCHANGED app_vars

\* sorted_aircrafts = manual_sort_by_arrival(aircrafts); the two initialisations
BatchSort ==
    /\ ip_pc = "entry"
    /\ ip_aircrafts # <<>>
    /\ ip_aircrafts' = manual_sort_by_arrival(ip_aircrafts)
    /\ ip_gate_assignments' = <<>>
    /\ ip_gates_heap' = {}
    /\ ip_k' = 0
    /\ ip_pc' = "loop"
    /\ UNCHANGED <<ip_input, ip_result, qs_stack>>
    /\ UNCHANGED app_vars

BatchIter ==
    /\ ip_pc = "loop"
    /\ ip_k < Len(ip_aircrafts)
    /\ LET st == batch_step([gate_assignments |-> ip_gate_assignments,
                             gates_heap |-> ip_gates_heap],
                            ip_aircrafts[ip_k + 1])
       IN  /\ ip_gate_assignments' = st.gate_assignments
           /\ ip_gates_heap' = st.gates_heap
    /\ ip_k' = ip_k + 1
    /\ UNCHANGED <<ip_pc, ip_input, ip_aircrafts, ip_result, qs_stack>>
    /\ UNCHANGED app_vars

\* num_gates = len(gate_assignments); return num_gates, gate_assignments
BatchReturn ==
    /\ ip_pc = "loop"
    /\ ip_k = Len(ip_aircrafts)
    /\ ip_result' = <<Len(ip_gate_assignments), ip_gate_assignments>>
    /\ ip_pc' = "done"
    /\ UNCHANGED <<ip_input, ip_aircrafts, ip_k, ip_gate_assignments, ip_gates_heap>>
    /\ UNCHANGED qs_stack
    /\ UNCHANGED app_vars

NextBatch == BatchEmpty \/ BatchSort \/ BatchIter \/ BatchReturn

SpecBatch == InitBatch /\ [][NextBatch]_vars

----------------------------------------------------------------------------
(* The same call with the sort taken call by call.  A frame of quicksort   *)
(* holds low, high, pi once partition has returned it, and the point the   *)
(* frame is at: "call" on entry, "left" and "right" while the recursive    *)
(* call on that part runs.  The handlers run on one thread from start to   *)
(* end, so a call that can take a step takes it.                           *)

frame(low, high) == [low |-> low, high |-> high, pi |-> 0, at |-> "call"]

Top(stack) == stack[Len(stack)]

Pop(stack) == SubSeq(stack, 1, Len(stack) - 1)

\* quicksort(arr, low, high) called from the innermost frame of stack: one
\* frame more, or RecursionError, which nothing catches on the way out
qs_call(stack, low, high) ==
    IF Len(stack) >= RecursionLimit
    THEN /\ ip_pc' = "RecursionError"
         /\ qs_stack' = <<>>
    ELSE /\ ip_pc' = ip_pc
         /\ qs_stack' = Append(stack, frame(low, high))

\* pi = partition(arr, low, high); quicksort(arr, low, pi - 1)
qs_partitioned(p, low) ==
    /\ ip_aircrafts' = p.arr
    /\ qs_call([qs_stack EXCEPT ![Len(qs_stack)] = [@ EXCEPT !.pi = p.pi, !.at = "left"]],
               low, p.pi - 1)

\* manual_sort_by_arrival: quicksort(aircraft_list, 0, len(aircraft_list) - 1)
StepsSort ==
    /\ ip_pc = "entry"
    /\ ip_aircrafts # <<>>
    /\ ip_pc' = "sort"
    /\ qs_stack' = <<frame(1, Len(ip_aircrafts))>>
    /\ UNCHANGED <<ip_input, ip_aircrafts, ip_k, ip_gate_assignments,
                   ip_gates_heap, ip_result>>
    /\ UNCHANGED app_vars

\* if low < high: partition, then the call on the left part
QsPartition ==
    /\ ip_pc = "sort"
    /\ qs_stack # <<>>
    /\ Top(qs_stack).at = "call"
    /\ Top(qs_stack).low < Top(qs_stack).high
    /\ qs_partitioned(partition(ip_aircrafts, Top(qs_stack).low, Top(qs_stack).high),
                      Top(qs_stack).low)
    /\ UNCHANGED <<ip_input, ip_k, ip_gate_assignments, ip_gates_heap, ip_result>>
    /\ UNCHANGED app_vars

\* the base case: low < high is false, return arr
QsBase ==
    /\ ip_pc = "sort"
    /\ qs_stack # <<>>
    /\ Top(qs_stack).at = "call"
    /\ ~ (Top(qs_stack).low < Top(qs_stack).high)
    /\ qs_stack' = Pop(qs_stack)
    /\ UNCHANGED <<ip_pc, ip_input, ip_aircrafts, ip_k, ip_gate_assignments,
                   ip_gates_heap, ip_result>>
    /\ UNCHANGED app_vars

\* the left call has returned: quicksort(arr, pi + 1, high)
QsRight ==
    /\ ip_pc = "sort"
    /\ qs_stack # <<>>
    /\ Top(qs_stack).at = "left"
    /\ qs_call([qs_stack EXCEPT ![Len(qs_stack)] = [@ EXCEPT !.at = "right"]],
               Top(qs_stack).pi + 1, Top(qs_stack).high)
    /\ UNCHANGED <<ip_input, ip_aircrafts, ip_k, ip_gate_assignments,
                   ip_gates_heap, ip_result>>
    /\ UNCHANGED app_vars

\* the right call has returned: return arr
QsReturn ==
    /\ ip_pc = "sort"
    /\ qs_stack # <<>>
    /\ Top(qs_stack).at = "right"
    /\ qs_stack' = Pop(qs_stack)
    /\ UNCHANGED <<ip_pc, ip_input, ip_aircrafts, ip_k, ip_gate_assignments,
                   ip_gates_heap, ip_result>>
    /\ UNCHANGED app_vars

\* the outermost quicksort has returned; the two initialisations
StepsLoop ==
    /\ ip_pc = "sort"
    /\ qs_stack = <<>>
    /\ ip_gate_assignments' = <<>>
    /\ ip_gates_heap' = {}
    /\ ip_k' = 0
    /\ ip_pc' = "loop"
    /\ UNCHANGED <<ip_input, ip_aircrafts, ip_result, qs_stack>>
    /\ UNCHANGED app_vars

NextSteps ==
    \/ BatchEmpty
    \/ StepsSort
    \/ QsPartition
    \/ QsBase
    \/ QsRight
    \/ QsReturn
    \/ StepsLoop
    \/ BatchIter
    \/ BatchReturn

SpecSteps == InitBatch /\ [][NextSteps]_vars /\ WF_vars(NextSteps)

----------------------------------------------------------------------------
(* airport_planning.py                                                     *)

\* A typed time is the pair of numbers on the two sides of the colon.
\* datetime.strptime(time_str, "%H:%M") raises ValueError outside 0..23, 0..59.
valid_time(time_str) == time_str[1] \in 0 .. 23 /\ time_str[2] \in 0 .. 59

to_m(time_str) == time_str[1] * 60 + time_str[2]

\* what the user may type into the arrival and departure fields: "09:00",
\* "10:30", "11:00", and "24:00", a text strptime rejects
TimeTexts == {<<9, 0>>, <<10, 30>>, <<11, 0>>, <<24, 0>>}

Codes == {"x"}

Replies == {"Yes", "No"}

sample_data ==
    << Aircraft(1, "a", to_m(<<9, 0>>),  to_m(<<10, 30>>)),
       Aircraft(2, "b", to_m(<<9, 0>>),  to_m(<<12, 30>>)),
       Aircraft(3, "d", to_m(<<11, 0>>), to_m(<<12, 30>>)),
       Aircraft(4, "e", to_m(<<11, 0>>), to_m(<<14, 0>>)),
       Aircraft(5, "f", to_m(<<13, 0>>), to_m(<<14, 30>>)),
       Aircraft(6, "g", to_m(<<13, 0>>), to_m(<<14, 30>>)),
       Aircraft(7, "h", to_m(<<14, 0>>), to_m(<<16, 30>>)),
       Aircraft(8, "i", to_m(<<15, 0>>), to_m(<<16, 30>>)),
       Aircraft(9, "j", to_m(<<15, 0>>), to_m(<<16, 30>>)) >>

\* identities of the objects the app holds, in the store or in a gate
LiveIds(al, ga) ==
    {al[n].id : n \in DOMAIN al}
        \cup UNION {{ga[g][n].id : n \in DOMAIN ga[g]} : g \in DOMAIN ga}

least_free(used) == CHOOSE id \in 1 .. (Cardinality(used) + 1) : id \notin used

\* a new object is none of the live ones
NewId(al, ga) == least_free(LiveIds(al, ga))

\* conflict with the two comparisons strict
conflict_strict(new_plane, plane) ==
    ~(new_plane.departure < plane.arrival \/ new_plane.arrival > plane.departure)

\* not (new_plane.departure <= plane.arrival or new_plane.arrival >= plane.departure)
conflict(new_plane, plane) ==
    ~(new_plane.departure <= plane.arrival \/ new_plane.arrival >= plane.departure)

\* conflict_found testing only the gate's last plane
conflict_found_last_only(gate, new_plane) ==
    gate # <<>> /\ conflict(new_plane, gate[Len(gate)])

\* conflict_found testing only the gate's first plane
conflict_found_first_only(gate, new_plane) ==
    gate # <<>> /\ conflict(new_plane, gate[1])

\* the inner loop: conflict_found after `for plane in gate`
conflict_found(gate, new_plane) ==
    \E n \in DOMAIN gate : conflict(new_plane, gate[n])

RECURSIVE assign_scan_prepend(_, _, _)
\* assign_scan putting the new plane at the head of the gate that takes it
assign_scan_prepend(ga, g, new_plane) ==
    IF g > Len(ga)
    THEN Append(ga, <<new_plane>>)
    ELSE IF conflict_found(ga[g], new_plane)
         THEN assign_scan_prepend(ga, g + 1, new_plane)
         ELSE [ga EXCEPT ![g] = <<new_plane>> \o @]

RECURSIVE assign_scan(_, _, _)
\* `for gate in self.gate_assignments` from the g-th gate on, then `if not placed`
assign_scan(ga, g, new_plane) ==
    IF g > Len(ga)
    THEN Append(ga, <<new_plane>>)
    ELSE IF conflict_found(ga[g], new_plane)
         THEN assign_scan(ga, g + 1, new_plane)
         ELSE [ga EXCEPT ![g] = Append(@, new_plane)]

\* assign_flight_incrementally passing over the first gate
assign_flight_skip_first(ga, new_plane) == assign_scan(ga, 2, new_plane)

assign_flight_incrementally(ga, new_plane) == assign_scan(ga, 1, new_plane)

\* add_error letting a departure equal to the arrival through
add_error_equal_allowed(arrival_text, departure_text) ==
    IF ~valid_time(arrival_text) \/ ~valid_time(departure_text)
    THEN "Invalid time format"
    ELSE IF to_m(departure_text) < to_m(arrival_text)
         THEN "Departure must be after arrival"
         ELSE ""

\* the ValueError add_aircraft raises for the typed texts, "" if none
add_error(arrival_text, departure_text) ==
    IF ~valid_time(arrival_text) \/ ~valid_time(departure_text)
    THEN "Invalid time format"
    ELSE IF to_m(departure_text) <= to_m(arrival_text)
         THEN "Departure must be after arrival"
         ELSE ""

\* the try block from `self.aircraft_list.append(aircraft)` on
add_valid(aircraft) ==
    /\ aircraft_list' = Append(aircraft_list, aircraft)
    /\ gate_assignments' = assign_flight_incrementally(gate_assignments, aircraft)
    /\ last' = [op |-> "add_aircraft", rows |-> {}, outcome |-> "ok"]
    /\ UNCHANGED gates_needed

add_aircraft(code, arrival_text, departure_text) ==
    IF add_error(arrival_text, departure_text) # ""
    THEN \* except ValueError: QMessageBox.warning(self, "Error", str(e))
         /\ last' = [op |-> "add_aircraft", rows |-> {},
                     outcome |-> add_error(arrival_text, departure_text)]
         /\ UNCHANGED <<aircraft_list, gate_assignments, gates_needed>>
        ELSE /\ Len(aircraft_list) < MaxAircraft
             /\ add_valid(Aircraft(NewId(aircraft_list, gate_assignments), code,
                                    to_m(arrival_text), to_m(departure_text)))

\* list.pop(row)
pop(list, row) == [n \in 1 .. (Len(list) - 1) |-> IF n < row THEN list[n] ELSE list[n + 1]]

in_gate(plane, gate) == \E n \in DOMAIN gate : gate[n].id = plane.id

\* if removed_plane in gate: gate.remove(removed_plane)
gate_remove(gate, removed_plane) ==
    IF in_gate(removed_plane, gate)
    THEN pop(gate, CHOOSE n \in DOMAIN gate :
                       /\ gate[n].id = removed_plane.id
                       /\ \A m \in 1 .. (n - 1) : gate[m].id # removed_plane.id)
    ELSE gate

\* the rows taken in ascending order
min_row(rows) == CHOOSE r \in rows : \A q \in rows : r <= q

\* the first row of sorted(selected_rows, reverse=True) not yet handled
max_row(rows) == CHOOSE r \in rows : \A q \in rows : q <= r

RECURSIVE remove_rows(_, _, _)
RECURSIVE remove_row(_, _, _, _)
\* the loop body: removed_plane = self.aircraft_list.pop(row), then the gates
remove_row(al, ga, rows, row) ==
    remove_rows(pop(al, row),
                [g \in DOMAIN ga |-> gate_remove(ga[g], al[row])],
                rows \ {row})

\* for row in sorted(selected_rows, reverse=True)
remove_rows(al, ga, rows) ==
    IF rows = {}
    THEN [aircraft_list |-> al, gate_assignments |-> ga]
    ELSE remove_row(al, ga, rows, max_row(rows))

\* store_planning adding the new gates to the ones there were
store_planning_extend(planned) ==
    /\ aircraft_list' = planned.aircrafts
    /\ gates_needed' = planned.num_gates
    /\ gate_assignments' = gate_assignments \o planned.gate_assignments

\* gates_needed, assignments = interval_partitioning(self.aircraft_list) and
\* the two assignments after it; the list itself was sorted in place
store_planning(planned) ==
    /\ aircraft_list' = planned.aircrafts
    /\ gates_needed' = planned.num_gates
    /\ gate_assignments' = planned.gate_assignments

\* replan_after_delete without the reset and the recompute
replan_after_delete_keep(removed) ==
    /\ aircraft_list' = removed.aircraft_list
    /\ gate_assignments' = removed.gate_assignments
    /\ UNCHANGED gates_needed

\* steps 2 and 3 of delete_selected_aircraft, removed being what step 1 left
replan_after_delete(removed) ==
    IF removed.aircraft_list # <<>>
    THEN store_planning(interval_partitioning(removed.aircraft_list))
    ELSE \* self.gate_assignments = [] stands
         /\ aircraft_list' = removed.aircraft_list
         /\ gate_assignments' = <<>>
         /\ UNCHANGED gates_needed

delete_selected_aircraft(selected_rows) ==
    IF selected_rows = {}
    THEN /\ last' = [op |-> "delete_selected_aircraft", rows |-> {},
                     outcome |-> "no selection"]
         /\ UNCHANGED <<aircraft_list, gate_assignments, gates_needed>>
    ELSE /\ last' = [op |-> "delete_selected_aircraft", rows |-> selected_rows,
                     outcome |-> "ok"]
         /\ replan_after_delete(
                remove_rows(aircraft_list, gate_assignments, selected_rows))

\* run_planning clearing the assignments before it asks
run_planning_clear_first(reply) ==
    IF gate_assignments # <<>> /\ reply = "No"
    THEN /\ last' = [op |-> "run_planning", rows |-> {}, outcome |-> "declined"]
         /\ gate_assignments' = <<>>
         /\ UNCHANGED <<aircraft_list, gates_needed>>
    ELSE IF aircraft_list = <<>>
         THEN /\ last' = [op |-> "run_planning", rows |-> {},
                          outcome |-> "No aircraft to schedule."]
              /\ gate_assignments' = <<>>
              /\ UNCHANGED <<aircraft_list, gates_needed>>
         ELSE /\ last' = [op |-> "run_planning", rows |-> {}, outcome |-> "ok"]
              /\ store_planning(interval_partitioning(aircraft_list))

run_planning(reply) ==
    IF gate_assignments # <<>> /\ reply = "No"
    THEN /\ last' = [op |-> "run_planning", rows |-> {}, outcome |-> "declined"]
         /\ UNCHANGED <<aircraft_list, gate_assignments, gates_needed>>
    ELSE IF aircraft_list = <<>>
         THEN /\ last' = [op |-> "run_planning", rows |-> {},
                          outcome |-> "No aircraft to schedule."]
              /\ gate_assignments' = <<>>
              /\ UNCHANGED <<aircraft_list, gates_needed>>
         ELSE /\ last' = [op |-> "run_planning", rows |-> {}, outcome |-> "ok"]
              /\ store_planning(interval_partitioning(aircraft_list))

IpIdle ==
    /\ ip_pc = "idle"
    /\ qs_stack = <<>>
    /\ ip_input = <<>>
    /\ ip_aircrafts = <<>>
    /\ ip_k = 0
    /\ ip_gate_assignments = <<>>
    /\ ip_gates_heap = {}
    /\ ip_result = <<>>
    /\ qs_stack = <<>>

\* __init__: empty fields, then load_sample_data, whose run_planning finds no
\* gate assignments and so asks nothing
Init ==
    /\ aircraft_list = interval_partitioning(sample_data).aircrafts
    /\ gates_needed = interval_partitioning(sample_data).num_gates
    /\ gate_assignments = interval_partitioning(sample_data).gate_assignments
    /\ last = [op |-> "load_sample_data", rows |-> {}, outcome |-> "ok"]
    /\ IpIdle

AddAircraft ==
    /\ \E code \in Codes, arrival_text \in TimeTexts, departure_text \in TimeTexts :
           add_aircraft(code, arrival_text, departure_text)
    /\ UNCHANGED ip_vars

DeleteSelectedAircraft ==
    /\ \E selected_rows \in SUBSET DOMAIN aircraft_list :
           delete_selected_aircraft(selected_rows)
    /\ UNCHANGED ip_vars

RunPlanning ==
    /\ \E reply \in Replies : run_planning(reply)
    /\ UNCHANGED ip_vars

Next == AddAircraft \/ DeleteSelectedAircraft \/ RunPlanning

Spec == Init /\ [][Next]_vars

----------------------------------------------------------------------------
(* interval_partitioning called on the first six sample tasks, a b d e f g *)
(* of load_sample_data, handed over in every order.                        *)

scenario == SubSeq(sample_data, 1, 6)

Orders(n) == {order \in [1 .. n -> 1 .. n] : \A i, j \in 1 .. n : order[i] = order[j] => i = j}

InitScenario ==
    /\ AppIdle
    /\ \E order \in Orders(Len(scenario)) :
           ip_input = [n \in DOMAIN scenario |-> scenario[order[n]]]
    /\ ip_aircrafts = ip_input
    /\ ip_pc = "entry"
    /\ ip_k = 0
    /\ ip_gate_assignments = <<>>
    /\ ip_gates_heap = {}
    /\ ip_result = <<>>
    /\ qs_stack = <<>>

NextScenario == BatchSort \/ BatchIter \/ BatchReturn

SpecScenario == InitScenario /\ [][NextScenario]_vars

----------------------------------------------------------------------------
(* assign_flight_incrementally called time after time, from the empty      *)
(* partition, as add_aircraft calls it for each accepted task.             *)

InitInsert == AppIdle /\ IpIdle

InsertFlight ==
    /\ Len(aircraft_list) < MaxLen
    /\ \E iv \in Intervals :
           add_valid(Aircraft(NewId(aircraft_list, gate_assignments), "x", iv[1], iv[2]))
    /\ UNCHANGED ip_vars

NextInsert == InsertFlight

SpecInsert == InitInsert /\ [][NextInsert]_vars


----------------------------------------------------------------------------
(* What the properties below speak of.                                     *)

Elems(list) == {list[n] : n \in DOMAIN list}

Maximum(numbers) == CHOOSE m \in numbers : \A k \in numbers : k <= m

\* the half-open interval [arrival, departure) of the task contains the instant
Covers(task, instant) == task.arrival <= instant /\ instant < task.departure

\* The number of tasks covering an instant changes only at an arrival or a
\* departure, so the endpoints are all the instants that need counting.
Endpoints(tasks) == {t.arrival : t \in tasks} \cup {t.departure : t \in tasks}

\* overlap depth: the most tasks that contain one common instant
OverlapDepth(tasks) ==
    Maximum({0} \cup {Cardinality({t \in tasks : Covers(t, instant)}) :
                         instant \in Endpoints(tasks)})

\* the places (gate, position) at which the partition holds the task
Places(task, ga) ==
    {place \in UNION {{<<g, n>> : n \in DOMAIN ga[g]} : g \in DOMAIN ga} :
        ga[place[1]][place[2]] = task}

\* every task of the list is at exactly one place of the partition, and the
\* partition holds nothing else
Complete(list, ga) ==
    /\ \A n \in DOMAIN list : Cardinality(Places(list[n], ga)) = 1
    /\ \A g \in DOMAIN ga : Elems(ga[g]) \subseteq Elems(list)

----------------------------------------------------------------------------
(* C1: when interval_partitioning returns, for any list of valid tasks,    *)
(* the gate count it returns is the overlap depth of the list it was       *)
(* given.                                                                  *)
C1_GateCountIsOverlapDepth ==
    ip_pc = "done" => ip_result[1] = OverlapDepth(Elems(ip_input))

\* four tasks were planned into two reused gates
C1_Witness ==
    /\ ip_pc = "done"
    /\ Len(ip_input) = 4
    /\ ip_result[1] = 2
    /\ OverlapDepth(Elems(ip_input)) = 2

(* C3: the partition interval_partitioning returns holds every task of     *)
(* the input exactly once, in exactly one gate, and holds no other task.   *)
C3_PartitionComplete ==
    ip_pc = "done" => Complete(ip_input, ip_result[2])

\* a returned partition in which one gate was reused twice
C3_Witness ==
    /\ ip_pc = "done"
    /\ Len(ip_input) = 4
    /\ \E g \in DOMAIN ip_result[2] : Len(ip_result[2][g]) = 3

----------------------------------------------------------------------------
(* Properties of the handlers of AirportPlanningApp.                       *)

Minimum(numbers) == CHOOSE m \in numbers : \A k \in numbers : m <= k

\* the two tasks contain a common instant
Overlap(p, q) ==
    \E instant \in Endpoints({p, q}) : Covers(p, instant) /\ Covers(q, instant)

\* T1.departure <= T2.arrival or T2.departure <= T1.arrival, for the tasks
\* at any two positions of any one gate
NoOverlap(ga) ==
    \A g \in DOMAIN ga : \A m, n \in DOMAIN ga[g] :
        m # n => \/ ga[g][m].departure <= ga[g][n].arrival
                 \/ ga[g][n].departure <= ga[g][m].arrival

Ended(op, outcome) == last.op = op /\ last.outcome = outcome

\* the step is a run of the handler that ended this way
Ends(op, outcome) == last'.op = op /\ last'.outcome = outcome

\* the task an accepted add_aircraft has just appended to the store
Newest(list) == list[Len(list)]

UserTask(list) == \E n \in DOMAIN list : list[n].code = "x"

(* C2: in every state the handlers can reach, no gate holds two tasks that *)
(* overlap.                                                                *)
C2_NoOverlapInAnyGate == NoOverlap(gate_assignments)

\* an accepted add_aircraft has put the task behind another task of the
\* first gate, next to a second gate
C2_Witness ==
    /\ Ended("add_aircraft", "ok")
    /\ Len(gate_assignments) = 2
    /\ Len(gate_assignments[1]) = 2
    /\ Newest(gate_assignments[1]) = Newest(aircraft_list)

\* the partition after the insertion: one gate got the task at its end and
\* the others are as they were, or one gate holding the task came at the end
Additive(ga, after, new_plane) ==
    \/ /\ Len(after) = Len(ga)
       /\ \E g \in DOMAIN ga :
              /\ after[g] = Append(ga[g], new_plane)
              /\ \A h \in DOMAIN ga \ {g} : after[h] = ga[h]
    \/ /\ Len(after) = Len(ga) + 1
       /\ after[Len(after)] = <<new_plane>>
       /\ \A h \in DOMAIN ga : after[h] = ga[h]

(* C4: an accepted add_aircraft changes the partition only by adding: one  *)
(* existing gate gets the new task appended at its end and every other     *)
(* gate keeps its tasks in their order, or all gates stay as they are and  *)
(* one gate holding the new task alone is appended at the end.             *)
C4_InsertIsAdditive ==
    [][Ends("add_aircraft", "ok") =>
           Additive(gate_assignments, gate_assignments', Newest(aircraft_list'))]_vars

\* the new task went to the end of the second gate, behind the first
C4_Witness ==
    /\ Ended("add_aircraft", "ok")
    /\ Len(gate_assignments) = 2
    /\ Len(gate_assignments[1]) = 1
    /\ Len(gate_assignments[2]) = 2
    /\ Newest(gate_assignments[2]) = Newest(aircraft_list)

\* the gates in which the task overlaps no member
Fits(ga, new_plane) ==
    {g \in DOMAIN ga : \A n \in DOMAIN ga[g] : ~Overlap(new_plane, ga[g][n])}

FirstFit(ga, after, new_plane) ==
    /\ Fits(ga, new_plane) # {} =>
           /\ Len(after) = Len(ga)
           /\ new_plane \in Elems(after[Minimum(Fits(ga, new_plane))])
    /\ Fits(ga, new_plane) = {} <=>
           /\ Len(after) = Len(ga) + 1
           /\ after[Len(after)] = <<new_plane>>

(* C5: an accepted add_aircraft puts the new task into the gate of lowest  *)
(* index in which it overlaps no member, whatever the member's position;   *)
(* a gate holding the new task alone is appended exactly when the task     *)
(* overlaps some member of every existing gate.                            *)
C5_InsertIsFirstFit ==
    [][Ends("add_aircraft", "ok") =>
           FirstFit(gate_assignments, gate_assignments', Newest(aircraft_list'))]_vars

\* the new task passed over the only gate, whose last member it does not
\* overlap but whose earlier member it does, and a gate was opened for it
C5_Witness ==
    /\ Ended("add_aircraft", "ok")
    /\ Len(gate_assignments) = 2
    /\ Len(gate_assignments[1]) = 2
    /\ Overlap(Newest(aircraft_list), gate_assignments[1][1])
    /\ ~Overlap(Newest(aircraft_list), gate_assignments[1][2])
    /\ gate_assignments[2] = <<Newest(aircraft_list)>>

(* C6: a run of add_aircraft on well-formed times with departure <=        *)
(* arrival ends in the error "Departure must be after arrival" and leaves  *)
(* aircraft_list and gate_assignments as they were.                        *)
C6_InvalidIntervalRejected ==
    [][\A code \in Codes, arrival_text \in TimeTexts, departure_text \in TimeTexts :
           ( /\ valid_time(arrival_text)
             /\ valid_time(departure_text)
             /\ to_m(departure_text) <= to_m(arrival_text)
             /\ add_aircraft(code, arrival_text, departure_text) )
           => /\ Ends("add_aircraft", "Departure must be after arrival")
              /\ aircraft_list' = aircraft_list
              /\ gate_assignments' = gate_assignments]_vars

\* the rejection happened in front of a store and a partition it could
\* have changed
C6_Witness ==
    /\ Ended("add_aircraft", "Departure must be after arrival")
    /\ Len(aircraft_list) < MaxAircraft
    /\ gate_assignments # <<>>

\* the list without the rows, the rest in its order
Kept(list, rows) ==
    [n \in 1 .. Cardinality(DOMAIN list \ rows) |->
        list[CHOOSE r \in DOMAIN list \ rows :
                 Cardinality({q \in DOMAIN list \ rows : q < r}) = n - 1]]

Rebuilt(list, rows, list_after, ga_after) ==
    /\ rows # {}
    /\ rows \subseteq DOMAIN list
    /\ Len(list_after) = Len(Kept(list, rows))
    /\ Elems(list_after) = Elems(Kept(list, rows))
    /\ \A r \in rows : Places(list[r], ga_after) = {}
    /\ ga_after = interval_partitioning(Kept(list, rows)).gate_assignments
    /\ Kept(list, rows) = <<>> => ga_after = <<>> /\ list_after = <<>>

(* C7: a delete_selected_aircraft with rows selected leaves in the store   *)
(* exactly the tasks of the rows that were not selected, leaves no         *)
(* selected task in any gate, and leaves as partition what                 *)
(* interval_partitioning returns on the tasks that remain; with no task    *)
(* left the partition has no gate.                                         *)
C7_DeleteRebuilds ==
    [][Ends("delete_selected_aircraft", "ok") =>
           Rebuilt(aircraft_list, last'.rows, aircraft_list', gate_assignments')]_vars

\* two rows out of a store of tasks the user added were deleted, one is left
C7_Witness ==
    /\ Ended("delete_selected_aircraft", "ok")
    /\ Cardinality(last.rows) = 2
    /\ Len(aircraft_list) = 1
    /\ UserTask(aircraft_list)
    /\ Len(gate_assignments) = 1

\* all rows were deleted
C7_WitnessEmpty ==
    /\ Ended("delete_selected_aircraft", "ok")
    /\ aircraft_list = <<>>
    /\ gate_assignments = <<>>

C9_DeleteNeverAddsGates ==
    [][/\ Ends("delete_selected_aircraft", "ok") =>
              Len(gate_assignments') <= Len(gate_assignments)
       /\ (Ended("delete_selected_aircraft", "ok") /\ last'.op = "run_planning") =>
              Len(gate_assignments') <= Len(gate_assignments)]_vars

\* a deletion left tasks the user added, in one gate
C9_Witness ==
    /\ Ended("delete_selected_aircraft", "ok")
    /\ Len(aircraft_list) = 2
    /\ UserTask(aircraft_list)
    /\ Len(gate_assignments) = 1

\* one of the two tasks departs at the minute the other arrives
Touching(p, q) == p.departure = q.arrival \/ q.departure = p.arrival

(* C10: touching tasks do not conflict.  An accepted add_aircraft of a     *)
(* task touching the only task of the first gate puts it into that gate;   *)
(* a planning (run_planning, or the one delete_selected_aircraft runs) of  *)
(* a store of two touching tasks leaves one gate holding both.             *)
C10_TouchingTasksShareGate ==
    [][/\ ( /\ Ends("add_aircraft", "ok")
            /\ gate_assignments # <<>>
            /\ Len(gate_assignments[1]) = 1
            /\ Touching(Newest(aircraft_list'), gate_assignments[1][1]) )
          => gate_assignments'[1] =
                 <<gate_assignments[1][1], Newest(aircraft_list')>>
       /\ ( /\ (Ends("run_planning", "ok") \/ Ends("delete_selected_aircraft", "ok"))
            /\ Len(aircraft_list') = 2
            /\ Touching(aircraft_list'[1], aircraft_list'[2]) )
          => /\ Len(gate_assignments') = 1
             /\ Len(gate_assignments'[1]) = 2
             /\ Elems(gate_assignments'[1]) = Elems(aircraft_list')]_vars

\* the first gate holds two touching tasks, the later one just inserted
C10_Witness ==
    /\ Ended("add_aircraft", "ok")
    /\ Len(gate_assignments) = 1
    /\ Len(gate_assignments[1]) = 2
    /\ Touching(gate_assignments[1][1], gate_assignments[1][2])
    /\ gate_assignments[1][2] = Newest(aircraft_list)

----------------------------------------------------------------------------
(* Properties of interval_partitioning on particular inputs.               *)

GateOf(code, ga) == CHOOSE g \in DOMAIN ga : \E n \in DOMAIN ga[g] : ga[g][n].code = code

(* C11: for the six tasks a(540,630), b(540,750), d(660,750), e(660,840),  *)
(* f(780,870), g(780,870), handed over in any order, interval_partitioning *)
(* returns exactly 3 gates, with f and g in different gates.               *)
C11_ScenarioNeedsThreeGates ==
    ip_pc = "done" =>
        /\ Elems(ip_input) = Elems(scenario)
        /\ ip_result[1] = 3
        /\ Len(ip_result[2]) = 3
        /\ \A g \in DOMAIN ip_result[2] :
               ~ (\E m, n \in DOMAIN ip_result[2][g] :
                      ip_result[2][g][m].code = "f" /\ ip_result[2][g][n].code = "g")

\* the call returned for the order g f e d b a, f and g in two gates
C11_Witness ==
    /\ ip_pc = "done"
    /\ [n \in DOMAIN ip_input |-> ip_input[n].code] = <<"g", "f", "e", "d", "b", "a">>
    /\ ip_result[1] = 3
    /\ GateOf("f", ip_result[2]) # GateOf("g", ip_result[2])

(* C12: interval_partitioning on at most one task: the empty list yields   *)
(* (0, []) and a list of one task t yields (1, [[t]]).                     *)
C12_SmallInputs ==
    ip_pc = "done" =>
        /\ ip_input = <<>> => ip_result = <<0, <<>>>>
        /\ Len(ip_input) = 1 => ip_result = <<1, << <<ip_input[1]>> >> >>

\* the call returned for a list of one task
C12_Witness ==
    /\ ip_pc = "done"
    /\ Len(ip_input) = 1
    /\ ip_result[1] = 1
    /\ ip_result[2][1][1] = ip_input[1]

----------------------------------------------------------------------------
(* C13: incremental insertion does not guarantee minimality.  Insertions   *)
(* from the empty partition never leave fewer gates than the overlap depth *)
(* of the tasks inserted, and they can leave more: C13_Witness is a state  *)
(* with more gates than the depth.  It takes at least four tasks.          *)
C13_InsertionMayExceedDepth ==
    /\ Len(gate_assignments) >= OverlapDepth(Elems(aircraft_list))
    /\ Len(gate_assignments) > OverlapDepth(Elems(aircraft_list))
           => Len(aircraft_list) >= 4

\* four insertions left three gates for tasks of overlap depth two
C13_Witness ==
    /\ Ended("add_aircraft", "ok")
    /\ Len(aircraft_list) = 4
    /\ Complete(aircraft_list, gate_assignments)
    /\ Len(gate_assignments) = 3
    /\ OverlapDepth(Elems(aircraft_list)) = 2

----------------------------------------------------------------------------
(* Properties of manual_sort_by_arrival, read off the list after the call  *)
(* in interval_partitioning.                                               *)

\* the position of the task in the list
Index(list, task) == CHOOSE k \in DOMAIN list : list[k].id = task.id

Sorted(list) ==
    \A m, n \in DOMAIN list : m < n => list[m].arrival <= list[n].arrival

(* C14: the sort is stable: in the list manual_sort_by_arrival returns,    *)
(* any two tasks with equal arrival keep the relative order they had in    *)
(* the input list.                                                         *)
C14_SortIsStable ==
    ip_pc \in {"loop", "done"} =>
        \A m, n \in DOMAIN ip_input :
            (m < n /\ ip_input[m].arrival = ip_input[n].arrival)
                => Index(ip_aircrafts, ip_input[m]) < Index(ip_aircrafts, ip_input[n])

\* after holds the tasks of before, each once, and nothing else
Permutation(before, after) ==
    /\ Len(after) = Len(before)
    /\ \A n \in DOMAIN before :
           Cardinality({k \in DOMAIN after : after[k] = before[n]}) = 1

SortedPermutation(before, after) == Sorted(after) /\ Permutation(before, after)

(* C15: manual_sort_by_arrival returns a permutation of the list it was    *)
(* given, the arrivals in it in non-decreasing order.                      *)
C15_SortReturnsSortedPermutation ==
    /\ ip_pc = "entry"
           => SortedPermutation(ip_input, manual_sort_by_arrival(ip_input))
    /\ (ip_pc \in {"loop", "done"} /\ ip_input # <<>>)
           => SortedPermutation(ip_input, ip_aircrafts)

\* four tasks given in decreasing arrival, two of them tied, came out sorted
C15_Witness ==
    /\ ip_pc = "loop"
    /\ ip_k = 0
    /\ Len(ip_input) = 4
    /\ ip_input[1].arrival > ip_input[2].arrival
    /\ ip_input[2].arrival = ip_input[3].arrival
    /\ ip_input[3].arrival > ip_input[4].arrival
    /\ ip_aircrafts # ip_input
    /\ Sorted(ip_aircrafts)

----------------------------------------------------------------------------
(* Properties of the steps of the batch loop.                              *)

LastDeparture(gate) == gate[Len(gate)].departure

\* the open gates whose last-appended task departs at or before the arrival
FreeGates(ga, plane) == {g \in DOMAIN ga : LastDeparture(ga[g]) <= plane.arrival}

\* the gate of smallest last departure, the lowest index among equal ones
EarliestGate(ga) ==
    CHOOSE g \in DOMAIN ga :
        \A h \in DOMAIN ga :
            \/ LastDeparture(ga[g]) < LastDeparture(ga[h])
            \/ LastDeparture(ga[g]) = LastDeparture(ga[h]) /\ g <= h

BatchStepRule(ga, after, plane) ==
    IF FreeGates(ga, plane) # {}
    THEN /\ EarliestGate(ga) \in FreeGates(ga, plane)
         /\ after = [ga EXCEPT ![EarliestGate(ga)] = Append(@, plane)]
    ELSE /\ after = Append(ga, <<plane>>)
         /\ \A g \in DOMAIN ga : Overlap(plane, Newest(ga[g]))

(* C16: at each step of the batch loop the task reuses a gate exactly when *)
(* some open gate's last-appended task departs at or before the task's     *)
(* arrival; the gate reused is the one of smallest last departure, the     *)
(* lowest gate index among equal departures; a new gate is opened only     *)
(* when the task overlaps the last-appended task of every open gate.       *)
C16_StepReusesEarliestFreeGate ==
    [][(ip_pc = "loop" /\ ip_k' = ip_k + 1) =>
           BatchStepRule(ip_gate_assignments, ip_gate_assignments',
                         ip_aircrafts[ip_k + 1])]_vars

\* the first two tasks opened a gate each; both gates were free with equal
\* last departures when the third task came, and it went to the first
C16_Witness ==
    /\ ip_pc = "loop"
    /\ ip_k = 3
    /\ Len(ip_gate_assignments) = 2
    /\ ip_gate_assignments[1] = <<ip_aircrafts[1], ip_aircrafts[3]>>
    /\ ip_gate_assignments[2] = <<ip_aircrafts[2]>>
    /\ ip_aircrafts[1].departure = ip_aircrafts[2].departure
    /\ ip_aircrafts[2].departure <= ip_aircrafts[3].arrival

(* C17: throughout the batch loop over valid tasks the priority queue      *)
(* holds exactly one entry per opened gate; the entry's key is the         *)
(* departure of the task most recently appended to that gate, which is     *)
(* also the largest departure of any task in that gate.                    *)
C17_HeapMirrorsGates ==
    ip_pc = "loop" =>
        /\ Cardinality(ip_gates_heap) = Len(ip_gate_assignments)
        /\ ip_gates_heap = {<<LastDeparture(ip_gate_assignments[g]), g>> :
                                g \in DOMAIN ip_gate_assignments}
        /\ \A g \in DOMAIN ip_gate_assignments :
               \A n \in DOMAIN ip_gate_assignments[g] :
                   ip_gate_assignments[g][n].departure
                       <= LastDeparture(ip_gate_assignments[g])

\* the loop has reused both of two gates: two entries with the later keys
C17_Witness ==
    /\ ip_pc = "loop"
    /\ ip_k = 4
    /\ Len(ip_gate_assignments) = 2
    /\ Len(ip_gate_assignments[1]) = 2
    /\ Len(ip_gate_assignments[2]) = 2
    /\ ip_gates_heap = {<<ip_gate_assignments[1][2].departure, 1>>,
                        <<ip_gate_assignments[2][2].departure, 2>>}
    /\ ip_gate_assignments[1][1].departure < ip_gate_assignments[1][2].departure

----------------------------------------------------------------------------
(* Further properties of the handlers of AirportPlanningApp.               *)

(* C18: run_planning invoked while gate assignments exist, the user        *)
(* answering No to the prompt, changes nothing: aircraft_list (its tasks   *)
(* and their order), gate_assignments and gates_needed stay as they were.  *)
C18_DeclinedPlanningChangesNothing ==
    [][/\ (gate_assignments # <<>> /\ run_planning("No"))
              => /\ Ends("run_planning", "declined")
                 /\ UNCHANGED <<aircraft_list, gate_assignments, gates_needed>>
       /\ Ends("run_planning", "declined")
              => /\ gate_assignments # <<>>
                 /\ UNCHANGED <<aircraft_list, gate_assignments, gates_needed>>]_vars

\* the user declined to replan a partition that an added task had extended
C18_Witness ==
    /\ Ended("run_planning", "declined")
    /\ gate_assignments # <<>>
    /\ UserTask(aircraft_list)
    /\ gates_needed # Len(gate_assignments)

(* C20: after every completed operation, in any sequence of                *)
(* load_sample_data, add_aircraft, delete_selected_aircraft and            *)
(* run_planning, the store and the partition agree: every task of          *)
(* aircraft_list is in exactly one gate, every task in a gate is in        *)
(* aircraft_list, and no gate is empty.                                    *)
C20_StoreAndPartitionAgree ==
    /\ Complete(aircraft_list, gate_assignments)
    /\ \A g \in DOMAIN gate_assignments : gate_assignments[g] # <<>>

\* a deletion took both tasks of the third gate out of the sample plan and
\* the recompute left two gates, all of them occupied
C20_Witness ==
    /\ Ended("delete_selected_aircraft", "ok")
    /\ Cardinality(last.rows) = 2
    /\ Len(aircraft_list) = 7
    /\ \A n \in DOMAIN aircraft_list : aircraft_list[n].code \notin {"e", "h"}
    /\ Len(gate_assignments) = 2
    /\ \A g \in DOMAIN gate_assignments : gate_assignments[g] # <<>>

----------------------------------------------------------------------------
(* C19: every batch operation terminates on every finite input: the        *)
(* quicksort recursion reaches its base case for every list, lists of      *)
(* equal arrivals and already sorted lists included, and the batch loop    *)
(* ends after processing each task once: the call returns.                 *)
C19_EveryCallReturns == <>(ip_pc = "done" /\ ip_k = Len(ip_input))

----------------------------------------------------------------------------
(* Properties of the fields of AirportPlanningApp across the calls of      *)
(* interval_partitioning.                                                  *)

\* after holds the tasks of the rows of before that are not in rows, the list
\* the delete handler hands to the call, each once, and nothing else
PermutationOfRest(before, rows, after) ==
    /\ Len(after) = Cardinality(DOMAIN before \ rows)
    /\ \A n \in DOMAIN before \ rows :
           Cardinality({k \in DOMAIN after : after[k] = before[n]}) = 1

(* C21: interval_partitioning changes at most the order of the list it is  *)
(* given: the caller's list, the app's aircraft_list, holds the same tasks *)
(* before and after the call, none added, dropped or duplicated, none with *)
(* its arrival or departure changed.                                       *)
C21_CallOnlyReordersList ==
    [][/\ Ends("run_planning", "ok")
              => Permutation(aircraft_list, aircraft_list')
       /\ Ends("delete_selected_aircraft", "ok")
              => PermutationOfRest(aircraft_list, last'.rows, aircraft_list')]_vars

\* run_planning moved a task the user had added, which add_aircraft puts at
\* the end of the list, in front of a later arrival
C21_Witness ==
    /\ Ended("run_planning", "ok")
    /\ Len(aircraft_list) = 3
    /\ aircraft_list[1].code = "x"
    /\ aircraft_list[1].arrival < aircraft_list[2].arrival
    /\ aircraft_list[3].code # "x"

(* C22: the stored count stays in step with the partition: after every     *)
(* completed add_aircraft, delete_selected_aircraft and run_planning, in   *)
(* any sequence, gates_needed is the number of gates of gate_assignments.  *)
C22_CountMatchesPartition ==
    last.op \in {"add_aircraft", "delete_selected_aircraft", "run_planning"}
        => gates_needed = Len(gate_assignments)

=============================================================================
